---- MODULE Spec2Model ----
(***************************************************************************)
(* A model of the NGAP test harness of Albor_RAN_rust:                     *)
(*   - the message codec NGAPMessage        (src/scripts/mock_amf.py)      *)
(*   - the mock responder MockAMF           (src/scripts/mock_amf.py)      *)
(*   - the SCTP/TCP bridge SCTPBridge       (src/scripts/sctp_to_tcp_bridge.py) *)
(* Byte strings are sequences of integers 0..255 (1-indexed here, so       *)
(* Python's data[k] is data[k+1]).                                         *)
(*                                                                         *)
(* The specifications share the variables:                                 *)
(*   SpecCodec   applies the pure codec functions to bounded inputs;       *)
(*   Spec        runs MockAMF: acceptor, one handler thread per            *)
(*               connection, and stop();                                   *)
(*   SpecBridge  runs SCTPBridge: start-up probe, one handler thread per   *)
(*               connection (forwarder or mock fallback), and stop().      *)
(*               SpecBridgeLive is SpecBridge with the fairness that the   *)
(*               bridge's timeouts justify.                                *)
(***************************************************************************)
EXTENDS Integers, Sequences, FiniteSets, TLC

VARIABLES
    \* ---- codec harness
    codec_in,           \* [fn, arg]: the call to make
    codec_out,          \* its result, or Pending
    \* ---- MockAMF
    running,            \* self.running
    connections,        \* self.connections: the keys, in insertion order
    lock,               \* self.lock: "free", "stop" or the holding handler's id
    acc_pc,             \* position of start()
    pc,                 \* position of each handle_ngap_connection thread
    ng_setup_complete,  \* the handler's local ng_setup_complete
    closed,             \* whether conn.close() has been called on the socket
    nrecv,              \* receive calls that returned data or timed out
    first_rx,           \* history: the first message the handler received
    first_handled,      \* history: whether it was handled to the end
    sent,               \* history: what conn.send() put on the connection
    stop_pc,            \* position of stop()
    stop_i,             \* stop(): index of the dict iteration
    tracked,            \* history: the registry keys when stop() took the lock, until it returns
    close_raised,       \* history: whether a close() raised in this call of stop()
    reg,                \* history: what became of the handler's registry entry
    \* ---- SCTPBridge
    bridge_running,     \* self.running
    startup_probe,      \* outcome of the probe made by start()
    bacc_pc,            \* position of start()
    bpc,                \* position of each handle_tcp_to_sctp thread
    probe,              \* outcome of the handler's own try_sctp_connection
    sctp_sock,          \* the handler's sctp_sock: "none", "open", "closed"
    tcp_closed,         \* whether tcp_conn.close() has been called
    tcp_in,             \* history: chunks read from tcp_conn
    sctp_out,           \* history: chunks written to sctp_sock
    sctp_in,            \* history: chunks read from sctp_sock
    tcp_out,            \* history: what was written to tcp_conn, with its origin
    mode,               \* history: the branch the handler took, "NEW" before
    event               \* history: the last thing the forwarder met that ends its loop

codec_vars == <<codec_in, codec_out>>
amf_vars == <<running, connections, lock, acc_pc, pc, ng_setup_complete, closed,
              nrecv, first_rx, first_handled, sent, stop_pc, stop_i, tracked,
              close_raised, reg>>
bridge_vars == <<bridge_running, startup_probe, bacc_pc, bpc, probe, sctp_sock,
                 tcp_closed, tcp_in, sctp_out, sctp_in, tcp_out, mode, event>>
vars == <<codec_vars, amf_vars, bridge_vars>>

(***************************************************************************)
(* Bounds                                                                  *)
(***************************************************************************)
MaxLen == 5         \* longest byte string handed to decode_header
MaxCauseLen == 255  \* longest cause (in characters) handed to create_ng_setup_failure
MaxRecv == 2        \* receive calls, over all connections, that return data or time out
MaxChunks == 2      \* chunks the forwarders read, over both directions and all connections

(***************************************************************************)
(* Python helpers                                                          *)
(***************************************************************************)
None == [tag |-> "None"]
Pending == [tag |-> "pending"]

\* The outcome of a call that may raise
Return(v) == [raised |-> FALSE, exc |-> "", value |-> v]
Raise(e) == [raised |-> TRUE, exc |-> e, value |-> <<>>]

\* data[lo:hi] of Python, for 0 <= lo <= hi <= len(data)
Slice(data, lo, hi) == SubSeq(data, lo + 1, hi)

\* struct.unpack('>H', b)[0]
unpack_H_be(b) == b[1] * 256 + b[2]

\* bytearray([...]): every item must be in range(0, 256)
bytearray(items) ==
    IF \E i \in 1..Len(items) : items[i] < 0 \/ items[i] > 255
    THEN Raise("ValueError")
    ELSE Return(items)

\* One character's UTF-8 encoding (code points below 0x10000)
utf8_char(cp) ==
    IF cp < 128 THEN <<cp>>
    ELSE IF cp < 2048 THEN <<192 + (cp \div 64), 128 + (cp % 64)>>
    ELSE <<224 + (cp \div 4096), 128 + ((cp \div 64) % 64), 128 + (cp % 64)>>

\* str.encode('utf-8')
RECURSIVE encode_utf8(_)
encode_utf8(s) ==
    IF Len(s) = 0 THEN <<>>
    ELSE IF Len(s) = 1 THEN utf8_char(s[1])
    ELSE LET half == Len(s) \div 2
         IN  encode_utf8(SubSeq(s, 1, half)) \o encode_utf8(SubSeq(s, half + 1, Len(s)))

RECURSIVE Flatten(_)
Flatten(chunks) ==
    IF chunks = <<>> THEN <<>> ELSE Head(chunks) \o Flatten(Tail(chunks))

IsPrefix(s, t) == Len(s) <= Len(t) /\ SubSeq(t, 1, Len(s)) = s

(***************************************************************************)
(* NGAPMessage                                                             *)
(***************************************************************************)
NG_SETUP_REQUEST == 21

decode_header_short5(data) ==
    IF Len(data) <= 4
    THEN None
    ELSE [procedure_code |-> data[1],
          criticality    |-> data[2],
          length         |-> unpack_H_be(Slice(data, 2, 4))]

decode_header(data) ==
    IF Len(data) < 4
    THEN None
    ELSE [procedure_code |-> data[1],
          criticality    |-> data[2],
          length         |-> unpack_H_be(Slice(data, 2, 4))]

create_ng_setup_response ==
    <<32, 21,
      0, 46,
      0, 0, 4,
      0, 1,
      0, 10,
      0, 8, 109, 111, 99, 107, 45, 97, 109, 102,
      0, 96,
      0, 14,
      0, 12,
      0, 0, 1,
      1,
      2,
      0, 1,
      0,
      0, 86,
      64, 1,
      255>>

\* cause: the string, as a sequence of code points
create_ng_setup_failure(cause) ==
    LET cause_bytes == encode_utf8(cause)
        response == bytearray(<<64, 21,
                                0, Len(cause_bytes) + 8,
                                0, 0, 1,
                                0, 15,
                                64, Len(cause_bytes) + 1,
                                0>>)
    IN  IF response.raised THEN response ELSE Return(response.value \o cause_bytes)

\* "Unknown PLMN", the default cause
DefaultCause == <<85, 110, 107, 110, 111, 119, 110, 32, 80, 76, 77, 78>>

(***************************************************************************)
(* SpecCodec: the codec functions applied to bounded inputs                *)
(***************************************************************************)
ByteVals == {0, 1, 21, 255}

RECURSIVE SeqsUpTo(_, _)
SeqsUpTo(S, n) ==
    IF n = 0 THEN {<<>>}
    ELSE LET shorter == SeqsUpTo(S, n - 1)
         IN  shorter \cup {Append(s, x) : s \in {t \in shorter : Len(t) = n - 1}, x \in S}

\* 'A', e-acute (2 bytes in UTF-8), the euro sign (3 bytes)
CauseChars == {65, 233, 8364}

Repeat(x, n) == [i \in 1..n |-> x]

Causes == {Repeat(ch, n) : ch \in CauseChars, n \in 0..MaxCauseLen} \cup {DefaultCause}

CodecInit ==
    /\ codec_in \in [fn : {"decode_header"}, arg : SeqsUpTo(ByteVals, MaxLen)]
                    \cup [fn : {"create_ng_setup_failure"}, arg : Causes]
                    \cup [fn : {"create_ng_setup_response",
                                "create_mock_ng_setup_response"}, arg : {<<>>}]
    /\ codec_out = Pending

CallDecodeHeader ==
    /\ codec_in.fn = "decode_header"
    /\ codec_out = Pending
    /\ codec_out' = decode_header(codec_in.arg)
    /\ UNCHANGED <<codec_in, amf_vars, bridge_vars>>

CallCreateFailure ==
    /\ codec_in.fn = "create_ng_setup_failure"
    /\ codec_out = Pending
    /\ codec_out' = create_ng_setup_failure(codec_in.arg)
    /\ UNCHANGED <<codec_in, amf_vars, bridge_vars>>

(***************************************************************************)
(* MockAMF                                                                 *)
(***************************************************************************)
\* The peers, in the order the acceptor accepts them; conn_id is addr:port.
\* Two connections: the concurrent scenario of the design.
AcceptOrder == <<"10.0.0.1:40001", "10.0.0.2:40002">>
ConnIds == {AcceptOrder[i] : i \in 1..Len(AcceptOrder)}

\* What a peer may send as one message
Garbage2 == <<222, 173>>            \* 2 bytes of garbage
Code21Len4 == <<21, 0, 0, 0>>       \* a bare header with procedure code 21
Code21Msg == <<21, 0, 0, 1, 0>>     \* procedure code 21 and one payload byte
TaggedMsg == <<0, 21, 0, 1, 0>>     \* first two bytes 00 15, as an NGAP PDU has
Messages == {Garbage2, Code21Len4, Code21Msg, TaggedMsg}

Keepalive == <<0, 0, 0, 0>>

handle_ng_setup_request_completes(data) ==
    IF Len(data) > 4 /\ data[1] = 0 /\ data[2] = 21
    THEN [reply |-> Return(create_ng_setup_response), ret |-> TRUE]
    ELSE [reply |-> create_ng_setup_failure(DefaultCause), ret |-> TRUE]

\* handle_ng_setup_request without the send: the reply built and the value returned
handle_ng_setup_request(data) ==
    IF Len(data) > 4 /\ data[1] = 0 /\ data[2] = 21
    THEN [reply |-> Return(create_ng_setup_response), ret |-> TRUE]
    ELSE [reply |-> create_ng_setup_failure(DefaultCause), ret |-> FALSE]

\* The body of the receive loop for one non-empty message: the reply to send (if
\* any) and the value ng_setup_complete takes when the send returns
on_data(complete, data) ==
    IF ~complete /\ Len(data) > 4
    THEN LET header == decode_header(data)
         IN  IF header # None /\ header.procedure_code = NG_SETUP_REQUEST
             THEN LET r == handle_ng_setup_request(data)
                  IN  [send |-> TRUE, reply |-> r.reply, complete |-> r.ret]
             ELSE [send |-> FALSE, reply |-> Return(<<>>), complete |-> complete]
    ELSE [send |-> FALSE, reply |-> Return(<<>>), complete |-> complete]

\* dict operations on the key sequence
HasKey(d, k) == \E i \in 1..Len(d) : d[i] = k
SetItem_lost(d, k) == d
SetItem(d, k) == IF HasKey(d, k) THEN d ELSE Append(d, k)
DelItem_all(d, k) == <<>>
DelItem_keep(d, k) == d
DelItem(d, k) == SelectSeq(d, LAMBDA x : x # k)
Keys(d) == {d[i] : i \in 1..Len(d)}

\* threading.Lock: "with self.lock:" enters when no thread holds the lock, and
\* releases it on leaving the block
can_acquire_always(l) == TRUE
can_acquire(l) == l = "free"
release_never(l) == l
release(l) == "free"

AmfInit ==
    /\ running = FALSE
    /\ connections = <<>>
    /\ lock = "free"
    /\ acc_pc = "start"
    /\ pc = [c \in ConnIds |-> "unaccepted"]
    /\ ng_setup_complete = [c \in ConnIds |-> FALSE]
    /\ closed = [c \in ConnIds |-> FALSE]
    /\ nrecv = [c \in ConnIds |-> 0]
    /\ first_rx = [c \in ConnIds |-> <<>>]
    /\ first_handled = [c \in ConnIds |-> FALSE]
    /\ sent = [c \in ConnIds |-> <<>>]
    /\ stop_pc = "idle"
    /\ stop_i = 0
    /\ tracked = {}
    /\ close_raised = FALSE
    /\ reg = [c \in ConnIds |-> "none"]

RECURSIVE Total(_, _)
Total(f, i) == IF i = 0 THEN 0 ELSE f[AcceptOrder[i]] + Total(f, i - 1)
\* receive calls so far that returned data or timed out, over all connections
Receives == Total(nrecv, Len(AcceptOrder))

amf_frame == UNCHANGED <<codec_vars, bridge_vars>>
stop_unchanged == UNCHANGED <<stop_pc, stop_i, tracked, close_raised>>
conn_unchanged == UNCHANGED <<ng_setup_complete, closed, nrecv, first_rx,
                              first_handled, sent, reg>>

\* ---- start()
\* self.running = True; bind; listen
Start ==
    /\ acc_pc = "start"
    /\ running' = TRUE
    /\ acc_pc' = "loop"
    /\ UNCHANGED <<connections, lock, pc>>
    /\ conn_unchanged /\ stop_unchanged /\ amf_frame

\* while self.running:
AcceptLoop ==
    /\ acc_pc = "loop"
    /\ acc_pc' = IF running THEN "accept" ELSE "finally"
    /\ UNCHANGED <<running, connections, lock, pc>>
    /\ conn_unchanged /\ stop_unchanged /\ amf_frame

\* The next peer to connect (one past the end when all have)
NextPeer == CHOOSE i \in 1..(Len(AcceptOrder) + 1) :
                /\ i <= Len(AcceptOrder) => pc[AcceptOrder[i]] = "unaccepted"
                /\ \A j \in 1..(i - 1) : pc[AcceptOrder[j]] # "unaccepted"

\* conn, addr = sock.accept(); thread.start()
Accept ==
    /\ acc_pc = "accept"
    /\ NextPeer <= Len(AcceptOrder)
    /\ pc' = [pc EXCEPT ![AcceptOrder[NextPeer]] = "register"]
    /\ acc_pc' = "loop"
    /\ UNCHANGED <<running, connections, lock>>
    /\ conn_unchanged /\ stop_unchanged /\ amf_frame

\* except socket.timeout: continue
AcceptTimeout ==
    /\ acc_pc = "accept"
    /\ acc_pc' = "loop"
    /\ UNCHANGED <<running, connections, lock, pc>>
    /\ conn_unchanged /\ stop_unchanged /\ amf_frame

\* finally: sock.close()
AcceptFinally ==
    /\ acc_pc = "finally"
    /\ acc_pc' = "stopped"
    /\ UNCHANGED <<running, connections, lock, pc>>
    /\ conn_unchanged /\ stop_unchanged /\ amf_frame

\* ---- handle_ngap_connection(conn, addr)
\* with self.lock:
RegisterLock(c) ==
    /\ pc[c] = "register"
    /\ can_acquire(lock)
    /\ lock' = c
    /\ pc' = [pc EXCEPT ![c] = "registering"]
    /\ UNCHANGED <<running, connections, acc_pc>>
    /\ conn_unchanged /\ stop_unchanged /\ amf_frame

\*     self.connections[conn_id] = conn        ng_setup_complete = False
Register(c) ==
    /\ pc[c] = "registering"
    /\ connections' = SetItem(connections, c)
    /\ lock' = release(lock)
    /\ ng_setup_complete' = [ng_setup_complete EXCEPT ![c] = FALSE]
    /\ reg' = [reg EXCEPT ![c] = "added"]
    /\ pc' = [pc EXCEPT ![c] = "loop"]
    /\ UNCHANGED <<running, acc_pc, closed, nrecv, first_rx, first_handled, sent>>
    /\ stop_unchanged /\ amf_frame

\* while self.running:
HandlerLoop(c) ==
    /\ pc[c] = "loop"
    /\ pc' = [pc EXCEPT ![c] = IF running THEN "recv" ELSE "finally"]
    /\ UNCHANGED <<running, connections, lock, acc_pc>>
    /\ conn_unchanged /\ stop_unchanged /\ amf_frame

\* data = conn.recv(4096) returns a message and the handler answers it.
\* send_ok: whether conn.send returns (it raises otherwise: except Exception: break)
RecvData(c) ==
    /\ pc[c] = "recv"
    /\ ~closed[c]
    /\ Receives < MaxRecv
    /\ \E data \in Messages, send_ok \in BOOLEAN :
          LET r == on_data(ng_setup_complete[c], data)
              first == first_rx[c] = <<>>
              done == ~r.send \/ (~r.reply.raised /\ send_ok)
          IN  /\ r.send \/ send_ok
              /\ nrecv' = [nrecv EXCEPT ![c] = @ + 1]
              /\ first_rx' = IF first THEN [first_rx EXCEPT ![c] = data] ELSE first_rx
              /\ sent' = IF r.send /\ done
                         THEN [sent EXCEPT ![c] =
                                  Append(@, [data |-> r.reply.value, re |-> data,
                                             first |-> first])]
                         ELSE sent
              /\ ng_setup_complete' = IF done
                                      THEN [ng_setup_complete EXCEPT ![c] = r.complete]
                                      ELSE ng_setup_complete
              /\ first_handled' = IF first /\ done
                                  THEN [first_handled EXCEPT ![c] = TRUE]
                                  ELSE first_handled
              /\ pc' = [pc EXCEPT ![c] = IF done THEN "loop" ELSE "finally"]
    /\ UNCHANGED <<running, connections, lock, acc_pc, closed, reg>>
    /\ stop_unchanged /\ amf_frame

\* if not data: break
RecvEmpty(c) ==
    /\ pc[c] = "recv"
    /\ ~closed[c]
    /\ pc' = [pc EXCEPT ![c] = "finally"]
    /\ UNCHANGED <<running, connections, lock, acc_pc>>
    /\ conn_unchanged /\ stop_unchanged /\ amf_frame

\* "if ng_setup_complete:" in the timeout branch
keepalive_due_always(complete) == TRUE
keepalive_due(complete) == complete

\* except socket.timeout: if ng_setup_complete: conn.send(b'\x00\x00\x00\x00')
RecvTimeout(c) ==
    /\ pc[c] = "recv"
    /\ ~closed[c]
    /\ Receives < MaxRecv
    /\ \E send_ok \in BOOLEAN :
          /\ keepalive_due(ng_setup_complete[c]) \/ send_ok
          /\ nrecv' = [nrecv EXCEPT ![c] = @ + 1]
          /\ sent' = IF keepalive_due(ng_setup_complete[c]) /\ send_ok
                     THEN [sent EXCEPT ![c] =
                              Append(@, [data |-> Keepalive, re |-> <<>>, first |-> FALSE])]
                     ELSE sent
          /\ pc' = [pc EXCEPT ![c] = IF send_ok THEN "loop" ELSE "finally"]
    /\ UNCHANGED <<running, connections, lock, acc_pc, ng_setup_complete, closed,
                   first_rx, first_handled, reg>>
    /\ stop_unchanged /\ amf_frame

\* except Exception: break   (the only outcome once the socket has been closed)
RecvError(c) ==
    /\ pc[c] = "recv"
    /\ pc' = [pc EXCEPT ![c] = "finally"]
    /\ UNCHANGED <<running, connections, lock, acc_pc>>
    /\ conn_unchanged /\ stop_unchanged /\ amf_frame

\* finally: with self.lock:
FinallyLock(c) ==
    /\ pc[c] = "finally"
    /\ can_acquire(lock)
    /\ lock' = c
    /\ pc' = [pc EXCEPT ![c] = "removing"]
    /\ UNCHANGED <<running, connections, acc_pc>>
    /\ conn_unchanged /\ stop_unchanged /\ amf_frame

\*     if conn_id in self.connections: del self.connections[conn_id]
Remove(c) ==
    /\ pc[c] = "removing"
    /\ connections' = IF HasKey(connections, c) THEN DelItem(connections, c) ELSE connections
    /\ reg' = IF HasKey(connections, c) THEN [reg EXCEPT ![c] = "deleted"] ELSE reg
    /\ lock' = release(lock)
    /\ pc' = [pc EXCEPT ![c] = "close"]
    /\ UNCHANGED <<running, acc_pc, ng_setup_complete, closed, nrecv, first_rx,
                   first_handled, sent>>
    /\ stop_unchanged /\ amf_frame

\* conn.close()
HandlerClose(c) ==
    /\ pc[c] = "close"
    /\ closed' = [closed EXCEPT ![c] = TRUE]
    /\ pc' = [pc EXCEPT ![c] = "done"]
    /\ UNCHANGED <<running, connections, lock, acc_pc, ng_setup_complete, nrecv,
                   first_rx, first_handled, sent, reg>>
    /\ stop_unchanged /\ amf_frame

\* ---- stop()
\* self.running = False
StopBegin ==
    /\ stop_pc = "idle"
    /\ acc_pc # "start"
    /\ running' = FALSE
    /\ stop_pc' = "lock"
    /\ UNCHANGED <<connections, lock, acc_pc, pc, stop_i, tracked, close_raised>>
    /\ conn_unchanged /\ amf_frame

\* with self.lock:
StopLock ==
    /\ stop_pc = "lock"
    /\ can_acquire(lock)
    /\ lock' = "stop"
    /\ stop_pc' = "iterate"
    /\ stop_i' = 1
    /\ tracked' = Keys(connections)
    /\ UNCHANGED <<running, connections, acc_pc, pc, close_raised>>
    /\ conn_unchanged /\ amf_frame

\* Whether an exception raised by conn.close() leaves the loop of stop():
\* "try: conn.close()  except: pass" swallows it
close_propagates_unguarded(raised) == raised
close_propagates(raised) == FALSE

\*     for conn_id, conn in self.connections.items(): try: conn.close() except: pass
\* raised: whether close() raises; the socket object is closed either way.
\* (An exception that propagated would leave the with block, and stop().)
StopClose ==
    /\ stop_pc = "iterate"
    /\ stop_i <= Len(connections)
    /\ \E raised \in BOOLEAN :
          /\ closed' = [closed EXCEPT ![connections[stop_i]] = TRUE]
          /\ close_raised' = (close_raised \/ raised)
          /\ IF close_propagates(raised)
             THEN /\ lock' = release(lock)
                  /\ stop_pc' = "return"
                  /\ stop_i' = 0
             ELSE /\ stop_i' = stop_i + 1
                  /\ UNCHANGED <<lock, stop_pc>>
    /\ UNCHANGED <<running, connections, acc_pc, pc, ng_setup_complete,
                   nrecv, first_rx, first_handled, sent, tracked, reg>>
    /\ amf_frame

\*     self.connections.clear()
StopClear ==
    /\ stop_pc = "iterate"
    /\ stop_i > Len(connections)
    /\ connections' = <<>>
    /\ lock' = release(lock)
    /\ stop_pc' = "return"
    /\ stop_i' = 0
    /\ reg' = [c \in ConnIds |-> IF HasKey(connections, c) THEN "cleared" ELSE reg[c]]
    /\ UNCHANGED <<running, acc_pc, pc, tracked, close_raised, ng_setup_complete,
                   closed, nrecv, first_rx, first_handled, sent>>
    /\ amf_frame

\* stop() returns; it may be called again (the signal handler calls it, and
\* main() calls it once more on the way out)
StopReturn ==
    /\ stop_pc = "return"
    /\ stop_pc' = "idle"
    /\ tracked' = {}
    /\ close_raised' = FALSE
    /\ UNCHANGED <<running, connections, lock, acc_pc, pc, stop_i>>
    /\ conn_unchanged /\ amf_frame

Next ==
    \/ Start
    \/ AcceptLoop
    \/ Accept
    \/ AcceptTimeout
    \/ AcceptFinally
    \/ \E c \in ConnIds : RegisterLock(c)
    \/ \E c \in ConnIds : Register(c)
    \/ \E c \in ConnIds : HandlerLoop(c)
    \/ \E c \in ConnIds : RecvData(c)
    \/ \E c \in ConnIds : RecvEmpty(c)
    \/ \E c \in ConnIds : RecvTimeout(c)
    \/ \E c \in ConnIds : RecvError(c)
    \/ \E c \in ConnIds : FinallyLock(c)
    \/ \E c \in ConnIds : Remove(c)
    \/ \E c \in ConnIds : HandlerClose(c)
    \/ StopBegin
    \/ StopLock
    \/ StopClose
    \/ StopClear
    \/ StopReturn

(***************************************************************************)
(* SCTPBridge                                                              *)
(***************************************************************************)
\* How try_sctp_connection can end: connected, "import sctp" fails, connect fails
ProbeOutcomes == {"connected", "ImportError", "ConnectError"}

\* The streams the two peers of a bridged connection deliver, as the chunks that
\* successive recv calls return: all different, so that a chunk that is dropped,
\* repeated, altered, reordered or sent the wrong way shows
TcpChunk(k) == <<k, 21, 0, k>>
SctpChunk(k) == <<32 + k, 21>>

\* try_sctp_connection: the socket, or nothing for both kinds of failure
try_sctp_connection_unchecked(outcome) == IF outcome = "ImportError" THEN "none" ELSE "open"
try_sctp_connection(outcome) == IF outcome = "connected" THEN "open" ELSE "none"

\* "if sctp_sock:" in handle_tcp_to_sctp
bridge_mode(handle) == IF handle # "none" THEN "BRIDGE" ELSE "MOCK"

\* What the forwarder writes for a chunk it has read: send(data).
\* Both sockets are blocking (no timeout is set on them), so send writes all of
\* data or raises.
forwarded_truncated(data) == SubSeq(data, 1, 1)
forwarded(data) == data

\* "if not data: break" in the forwarding loop
breaks_on_never(data) == FALSE
breaks_on(data) == Len(data) = 0

create_mock_ng_setup_response == <<32, 21, 0, 32>> \o [i \in 1..32 |-> 0]

\* The outcomes of "data = a.recv(4096); if not data: break; b.send(data)":
\* recv raises, or returns data (empty at end of stream) and send returns or raises
\* (chunk: what recv returns if the peer has sent more)
IoOutcomes(chunk) == [kind : {"recv_raises"}, data : {<<>>}]
                     \cup [kind : {"sent"}, data : {chunk, <<>>}]
                     \cup [kind : {"send_raises"}, data : {chunk}]
NoIo == [kind |-> "recv_raises", data |-> <<>>]

SelectResults == [tcp : BOOLEAN, sctp : BOOLEAN, exc : BOOLEAN]

RECURSIVE TotalLen(_, _)
TotalLen(f, i) == IF i = 0 THEN 0 ELSE Len(f[AcceptOrder[i]]) + TotalLen(f, i - 1)
\* chunks read so far by all forwarders, in both directions
Reads == TotalLen(tcp_in, Len(AcceptOrder)) + TotalLen(sctp_in, Len(AcceptOrder))

\* The forwarder's view of one connection within one pass of its loop
\* (exit: the loop has been left)
Pass(c) == [tcp_in |-> tcp_in[c], sctp_out |-> sctp_out[c], sctp_in |-> sctp_in[c],
            tcp_out |-> tcp_out[c], event |-> event[c], exit |-> FALSE]

\* if tcp_conn in readable: data = tcp_conn.recv(4096); if not data: break
\*                          sctp_sock.send(data)
tcp_to_sctp(st, o) ==
    IF o.kind = "recv_raises"
    THEN [st EXCEPT !.event = "io_error", !.exit = TRUE]
    ELSE LET st1 == [st EXCEPT !.tcp_in = IF o.data # <<>> THEN Append(@, o.data) ELSE @,
                               !.event = IF o.data = <<>> THEN "tcp_empty" ELSE @]
         IN  IF breaks_on(o.data) THEN [st1 EXCEPT !.exit = TRUE]
             ELSE IF o.kind = "send_raises"
             THEN [st1 EXCEPT !.event = "io_error", !.exit = TRUE]
             ELSE [st1 EXCEPT !.sctp_out = Append(@, forwarded(o.data))]

\* if sctp_sock in readable: data = sctp_sock.recv(4096); if not data: break
\*                           tcp_conn.send(data)
sctp_to_tcp(st, o) ==
    IF o.kind = "recv_raises"
    THEN [st EXCEPT !.event = "io_error", !.exit = TRUE]
    ELSE LET st1 == [st EXCEPT !.sctp_in = IF o.data # <<>> THEN Append(@, o.data) ELSE @,
                               !.event = IF o.data = <<>> THEN "sctp_empty" ELSE @]
         IN  IF breaks_on(o.data) THEN [st1 EXCEPT !.exit = TRUE]
             ELSE IF o.kind = "send_raises"
             THEN [st1 EXCEPT !.event = "io_error", !.exit = TRUE]
             ELSE [st1 EXCEPT !.tcp_out =
                      Append(@, [data |-> forwarded(o.data), origin |-> "sctp", re |-> <<>>])]

\* One pass of the forwarding loop after select returned r, with the outcomes
\* o_tcp and o_sctp of the two transfers (each used only if it is reached)
loop_body(st, r, o_tcp, o_sctp) ==
    LET s1 == IF r.tcp THEN tcp_to_sctp(st, o_tcp) ELSE st
        s2 == IF ~s1.exit /\ r.sctp THEN sctp_to_tcp(s1, o_sctp) ELSE s1
    IN  IF ~s2.exit /\ r.exc THEN [s2 EXCEPT !.exit = TRUE] ELSE s2

BridgeInit ==
    /\ bridge_running = FALSE
    /\ startup_probe = "none"
    /\ bacc_pc = "start"
    /\ bpc = [c \in ConnIds |-> "unaccepted"]
    /\ probe = [c \in ConnIds |-> "none"]
    /\ sctp_sock = [c \in ConnIds |-> "none"]
    /\ tcp_closed = [c \in ConnIds |-> FALSE]
    /\ tcp_in = [c \in ConnIds |-> <<>>]
    /\ sctp_out = [c \in ConnIds |-> <<>>]
    /\ sctp_in = [c \in ConnIds |-> <<>>]
    /\ tcp_out = [c \in ConnIds |-> <<>>]
    /\ mode = [c \in ConnIds |-> "NEW"]
    /\ event = [c \in ConnIds |-> "none"]

bridge_frame == UNCHANGED <<codec_vars, amf_vars>>
bconn_unchanged == UNCHANGED <<probe, sctp_sock, tcp_closed, tcp_in, sctp_out,
                               sctp_in, tcp_out, mode, event>>
bglobal_unchanged == UNCHANGED <<bridge_running, startup_probe, bacc_pc>>

\* ---- start()
\* self.running = True; bind; listen; test_sock = self.try_sctp_connection()
\* (test_sock is closed at once and nothing of it is kept)
BStart ==
    /\ bacc_pc = "start"
    /\ bridge_running' = TRUE
    /\ \E outcome \in ProbeOutcomes : startup_probe' = outcome
    /\ bacc_pc' = "loop"
    /\ UNCHANGED bpc /\ bconn_unchanged /\ bridge_frame

\* while self.running:
BAcceptLoop ==
    /\ bacc_pc = "loop"
    /\ bacc_pc' = IF bridge_running THEN "accept" ELSE "finally"
    /\ UNCHANGED <<bridge_running, startup_probe, bpc>> /\ bconn_unchanged /\ bridge_frame

BNextPeer == CHOOSE i \in 1..(Len(AcceptOrder) + 1) :
                /\ i <= Len(AcceptOrder) => bpc[AcceptOrder[i]] = "unaccepted"
                /\ \A j \in 1..(i - 1) : bpc[AcceptOrder[j]] # "unaccepted"

\* conn, addr = tcp_sock.accept(); thread.start()
BAccept ==
    /\ bacc_pc = "accept"
    /\ BNextPeer <= Len(AcceptOrder)
    /\ bpc' = [bpc EXCEPT ![AcceptOrder[BNextPeer]] = "probe"]
    /\ bacc_pc' = "loop"
    /\ UNCHANGED <<bridge_running, startup_probe>> /\ bconn_unchanged /\ bridge_frame

\* except socket.timeout: continue
BAcceptTimeout ==
    /\ bacc_pc = "accept"
    /\ bacc_pc' = "loop"
    /\ UNCHANGED <<bridge_running, startup_probe, bpc>> /\ bconn_unchanged /\ bridge_frame

\* finally: tcp_sock.close()
BAcceptFinally ==
    /\ bacc_pc = "finally"
    /\ bacc_pc' = "stopped"
    /\ UNCHANGED <<bridge_running, startup_probe, bpc>> /\ bconn_unchanged /\ bridge_frame

\* ---- stop():  self.running = False
BStop ==
    /\ bacc_pc # "start"
    /\ bridge_running
    /\ bridge_running' = FALSE
    /\ UNCHANGED <<startup_probe, bacc_pc, bpc>> /\ bconn_unchanged /\ bridge_frame

\* ---- handle_tcp_to_sctp(tcp_conn, tcp_addr)
\* sctp_sock = self.try_sctp_connection(); if sctp_sock: ... else: ...
\* (whether the sctp module can be imported does not change while the process runs)
BProbe(c) ==
    /\ bpc[c] = "probe"
    /\ \E outcome \in ProbeOutcomes :
          /\ (outcome = "ImportError") <=> (startup_probe = "ImportError")
          /\ probe' = [probe EXCEPT ![c] = outcome]
          /\ sctp_sock' = [sctp_sock EXCEPT ![c] = try_sctp_connection(outcome)]
          /\ mode' = [mode EXCEPT ![c] = bridge_mode(try_sctp_connection(outcome))]
          /\ bpc' = [bpc EXCEPT ![c] =
                        IF bridge_mode(try_sctp_connection(outcome)) = "BRIDGE"
                        THEN "b_loop" ELSE "m_first"]
    /\ UNCHANGED <<tcp_closed, tcp_in, sctp_out, sctp_in, tcp_out, event>>
    /\ bglobal_unchanged /\ bridge_frame

\* while self.running:
BLoop(c) ==
    /\ bpc[c] = "b_loop"
    /\ bpc' = [bpc EXCEPT ![c] = IF bridge_running THEN "select" ELSE "b_finally"]
    /\ bconn_unchanged /\ bglobal_unchanged /\ bridge_frame

\* readable, _, exceptional = select.select([tcp_conn, sctp_sock], [], [...], 1.0)
\* and the rest of the pass: the two transfers and "if exceptional: break".
\* The thread touches nothing shared within a pass.
BPass(c) ==
    /\ bpc[c] = "select"
    /\ \E r \in SelectResults,
          o_tcp \in IoOutcomes(TcpChunk(Len(tcp_in[c]) + 1)),
          o_sctp \in IoOutcomes(SctpChunk(Len(sctp_in[c]) + 1)) :
          /\ ~r.tcp => o_tcp = NoIo
          /\ ~r.sctp => o_sctp = NoIo
          /\ (r.tcp /\ o_tcp.data # <<>>) => Reads < MaxChunks
          /\ (r.sctp /\ o_sctp.data # <<>>) => Reads + (IF r.tcp /\ o_tcp.data # <<>> THEN 1 ELSE 0) < MaxChunks
          /\ LET st == [Pass(c) EXCEPT
                           !.event = IF r.exc THEN "exceptional" ELSE @]
                 s == loop_body(st, r, o_tcp, o_sctp)
             IN  /\ tcp_in' = [tcp_in EXCEPT ![c] = s.tcp_in]
                 /\ sctp_out' = [sctp_out EXCEPT ![c] = s.sctp_out]
                 /\ sctp_in' = [sctp_in EXCEPT ![c] = s.sctp_in]
                 /\ tcp_out' = [tcp_out EXCEPT ![c] = s.tcp_out]
                 /\ event' = [event EXCEPT ![c] = s.event]
                 /\ bpc' = [bpc EXCEPT ![c] = IF s.exit THEN "b_finally" ELSE "b_loop"]
    /\ UNCHANGED <<probe, sctp_sock, tcp_closed, mode>>
    /\ bglobal_unchanged /\ bridge_frame

\* select raises: except Exception
BSelectError(c) ==
    /\ bpc[c] = "select"
    /\ event' = [event EXCEPT ![c] = "io_error"]
    /\ bpc' = [bpc EXCEPT ![c] = "b_finally"]
    /\ UNCHANGED <<probe, sctp_sock, tcp_closed, tcp_in, sctp_out, sctp_in, tcp_out, mode>>
    /\ bglobal_unchanged /\ bridge_frame

\* finally: sctp_sock.close()
BFinally(c) ==
    /\ bpc[c] = "b_finally"
    /\ sctp_sock' = [sctp_sock EXCEPT ![c] = "closed"]
    /\ bpc' = [bpc EXCEPT ![c] = "tcp_close"]
    /\ UNCHANGED <<probe, tcp_closed, tcp_in, sctp_out, sctp_in, tcp_out, mode, event>>
    /\ bglobal_unchanged /\ bridge_frame

\* tcp_conn.close()
BTcpClose(c) ==
    /\ bpc[c] = "tcp_close"
    /\ tcp_closed' = [tcp_closed EXCEPT ![c] = TRUE]
    /\ bpc' = [bpc EXCEPT ![c] = "done"]
    /\ UNCHANGED <<probe, sctp_sock, tcp_in, sctp_out, sctp_in, tcp_out, mode, event>>
    /\ bglobal_unchanged /\ bridge_frame

\* ---- handle_mock_amf(conn, addr)
\* data = conn.recv(4096); if data: conn.send(self.create_mock_ng_setup_response())
\* send_ok: whether send returns (it raises otherwise: except Exception)
MockFirst(c) ==
    /\ bpc[c] = "m_first"
    /\ \E data \in Messages \cup {<<>>}, send_ok \in BOOLEAN :
          /\ data = <<>> => send_ok
          /\ IF Len(data) # 0 /\ send_ok
             THEN /\ tcp_out' = [tcp_out EXCEPT ![c] =
                                    Append(@, [data |-> create_mock_ng_setup_response,
                                               origin |-> "mock", re |-> data])]
                  /\ bpc' = [bpc EXCEPT ![c] = "m_loop"]
             ELSE /\ bpc' = [bpc EXCEPT ![c] = "tcp_close"]
                  /\ UNCHANGED tcp_out
    /\ UNCHANGED <<probe, sctp_sock, tcp_closed, tcp_in, sctp_out, sctp_in, mode, event>>
    /\ bglobal_unchanged /\ bridge_frame

\* conn.recv raises: except Exception
MockFirstError(c) ==
    /\ bpc[c] = "m_first"
    /\ bpc' = [bpc EXCEPT ![c] = "tcp_close"]
    /\ bconn_unchanged /\ bglobal_unchanged /\ bridge_frame

\* while self.running:
MockLoop(c) ==
    /\ bpc[c] = "m_loop"
    /\ bpc' = [bpc EXCEPT ![c] = IF bridge_running THEN "m_recv" ELSE "tcp_close"]
    /\ bconn_unchanged /\ bglobal_unchanged /\ bridge_frame

\*     data = conn.recv(4096) returns a message, which is logged
MockRecv(c) ==
    /\ bpc[c] = "m_recv"
    /\ bpc' = [bpc EXCEPT ![c] = "m_loop"]
    /\ bconn_unchanged /\ bglobal_unchanged /\ bridge_frame

\*     if not data: break      except: break
MockRecvEnd(c) ==
    /\ bpc[c] = "m_recv"
    /\ bpc' = [bpc EXCEPT ![c] = "tcp_close"]
    /\ bconn_unchanged /\ bglobal_unchanged /\ bridge_frame

NextBridge ==
    \/ BStart
    \/ BAcceptLoop
    \/ BAccept
    \/ BAcceptTimeout
    \/ BAcceptFinally
    \/ BStop
    \/ \E c \in ConnIds : BProbe(c)
    \/ \E c \in ConnIds : BLoop(c)
    \/ \E c \in ConnIds : BPass(c)
    \/ \E c \in ConnIds : BSelectError(c)
    \/ \E c \in ConnIds : BFinally(c)
    \/ \E c \in ConnIds : BTcpClose(c)
    \/ \E c \in ConnIds : MockFirst(c)
    \/ \E c \in ConnIds : MockFirstError(c)
    \/ \E c \in ConnIds : MockLoop(c)
    \/ \E c \in ConnIds : MockRecv(c)
    \/ \E c \in ConnIds : MockRecvEnd(c)

(***************************************************************************)
(* Specifications                                                          *)
(***************************************************************************)
\* No call of the codec has been made
CodecIdle == codec_in = [fn |-> "decode_header", arg |-> <<>>] /\ codec_out = Pending

\* The responder and the bridge as constructed
Init == CodecIdle /\ AmfInit /\ BridgeInit

Spec == Init /\ [][Next]_vars

SpecBridge == Init /\ [][NextBridge]_vars

\* The steps the bridge takes without the peer's help: the acceptor's (accept has
\* a timeout of 1 s), the probe (connect fails or succeeds), the forwarder's
\* (select has a timeout of 1 s) and the teardown. A handler blocked in
\* conn.recv of handle_mock_amf moves only when the peer sends, closes or the
\* connection breaks: no timeout is set on that socket, so no fairness.
BridgeFairness ==
    /\ WF_vars(BAcceptLoop)
    /\ WF_vars(BAcceptTimeout)
    /\ WF_vars(BAcceptFinally)
    /\ \A c \in ConnIds :
          /\ WF_vars(BProbe(c))
          /\ WF_vars(BLoop(c))
          /\ WF_vars(BPass(c))
          /\ WF_vars(BFinally(c))
          /\ WF_vars(BTcpClose(c))
          /\ WF_vars(MockLoop(c))

SpecBridgeLive == Init /\ [][NextBridge]_vars /\ BridgeFairness

\* The steps MockAMF takes without the peer's help. accept has a timeout of 1 s
\* and recv one of 5 s, so each of the two calls returns, one way or another;
\* the rest are steps of running threads. A thread waiting for the lock gets it
\* once the lock stays free.
AcceptReturns == Accept \/ AcceptTimeout
\* conn.settimeout(5.0): recv does not block for ever, it times out, reports the
\* end of the stream or raises (a return with data leaves recv as well, so
\* weak fairness on these returns is weak fairness on every return of recv)
RecvReturns(c) == RecvEmpty(c) \/ RecvTimeout(c) \/ RecvError(c)

AcceptorRuns == AcceptLoop \/ AcceptReturns \/ AcceptFinally
StopRuns == StopLock \/ StopClose \/ StopClear \/ StopReturn
HandlerRuns(c) ==
    \/ RegisterLock(c) \/ Register(c) \/ HandlerLoop(c) \/ RecvReturns(c)
    \/ FinallyLock(c) \/ Remove(c) \/ HandlerClose(c)

AmfFairness ==
    /\ WF_vars(AcceptorRuns)
    /\ WF_vars(StopRuns)
    /\ \A c \in ConnIds : WF_vars(HandlerRuns(c))

SpecLive == Init /\ [][Next]_vars /\ AmfFairness

\* A call of the codec about to be made
InitCodec == CodecInit /\ AmfInit /\ BridgeInit

\* The two builders that take no argument
CallCreateResponse ==
    /\ codec_in.fn = "create_ng_setup_response"
    /\ codec_out = Pending
    /\ codec_out' = Return(create_ng_setup_response)
    /\ UNCHANGED <<codec_in, amf_vars, bridge_vars>>

CallCreateMockResponse ==
    /\ codec_in.fn = "create_mock_ng_setup_response"
    /\ codec_out = Pending
    /\ codec_out' = Return(create_mock_ng_setup_response)
    /\ UNCHANGED <<codec_in, amf_vars, bridge_vars>>

NextCodec ==
    \/ CallDecodeHeader
    \/ CallCreateFailure
    \/ CallCreateResponse
    \/ CallCreateMockResponse
SpecCodec == InitCodec /\ [][NextCodec]_vars

(***************************************************************************)
(* Properties                                                              *)
(***************************************************************************)
\* The setup gate of the design: decode succeeded and the procedure code is the
\* session-setup code
IsSetupRequest(m) ==
    decode_header(m) # None /\ decode_header(m).procedure_code = NG_SETUP_REQUEST

\* successfulOutcome (0x20) of NG Setup (0x15)
IsSuccessReply(b) == Len(b) >= 2 /\ b[1] = 32 /\ b[2] = 21
\* unsuccessfulOutcome (0x40) of NG Setup (0x15), with the cause after 12 bytes
IsFailureReply(b) == Len(b) >= 12 /\ b[1] = 64 /\ b[2] = 21
FailureCause(b) == SubSeq(b, 13, Len(b))

\* The replies conn c was sent in answer to its first message
FirstReplies(c) == {sent[c][i].data : i \in {j \in 1..Len(sent[c]) : sent[c][j].first}}

\* C1: when the first message of a connection passes the setup gate (it decodes
\* and its procedure code is 21) and has been handled, the success template has
\* been sent on the connection and its setup is complete.
C1_SetupRequestIsAnsweredWithSuccess ==
    \A c \in ConnIds :
        (first_handled[c] /\ IsSetupRequest(first_rx[c]))
            => /\ create_ng_setup_response \in FirstReplies(c)
               /\ ng_setup_complete[c]

\* C2: when the first message of a connection is not a valid setup request
\* (shorter than 4 bytes, or another procedure code) and has been handled, the
\* failure template with a non-empty cause has been sent on the connection.
C2_InvalidFirstMessageIsAnsweredWithFailure ==
    \A c \in ConnIds :
        (first_handled[c] /\ ~IsSetupRequest(first_rx[c]))
            => \E b \in FirstReplies(c) : IsFailureReply(b) /\ FailureCause(b) # <<>>

\* C3: no responder sends a success reply in answer to a message that does not
\* pass the setup gate: neither MockAMF (sent) nor the bridge's mock fallback
\* (the entries of tcp_out of origin "mock").
C3_SuccessOnlyForSetupRequests ==
    /\ \A c \in ConnIds : \A i \in 1..Len(sent[c]) :
          IsSuccessReply(sent[c][i].data) => IsSetupRequest(sent[c][i].re)
    /\ \A c \in ConnIds : \A i \in 1..Len(tcp_out[c]) :
          (tcp_out[c][i].origin = "mock" /\ IsSuccessReply(tcp_out[c][i].data))
              => IsSetupRequest(tcp_out[c][i].re)

\* C4: with two connections handled concurrently, one whose first message is a
\* valid setup header (under either reading: procedure code 21 in byte 0, or the
\* tag 00 15 in the first two bytes) and one whose first message is 2 bytes of
\* garbage, once both first messages are handled the first connection has the
\* success reply and the second the failure reply, and every reply on a
\* connection answers a message of that connection.
C4_ConcurrentSetupAndGarbage ==
    \A c1, c2 \in ConnIds :
        (/\ c1 # c2
         /\ first_handled[c1] /\ first_rx[c1] \in {Code21Msg, TaggedMsg}
         /\ first_handled[c2] /\ first_rx[c2] = Garbage2)
            => /\ create_ng_setup_response \in FirstReplies(c1)
               /\ \E b \in FirstReplies(c2) : IsFailureReply(b)
               /\ \A c \in {c1, c2} : \A i \in 1..Len(sent[c]) :
                     sent[c][i].first => sent[c][i].re = first_rx[c]

\* C5: decode_header returns None exactly for inputs shorter than 4 bytes, and
\* otherwise procedure code = byte 0, criticality = byte 1, length = 256 * byte 2
\* + byte 3, whatever the size of the payload.
C5_DecodeHeader ==
    (codec_in.fn = "decode_header" /\ codec_out # Pending)
        => LET data == codec_in.arg
           IN  /\ (codec_out = None) <=> (Len(data) < 4)
               /\ Len(data) >= 4 =>
                     /\ codec_out.procedure_code = data[1]
                     /\ codec_out.criticality = data[2]
                     /\ codec_out.length = 256 * data[3] + data[4]

\* a header was decoded whose length field differs from the size of the payload
C5_Witness ==
    /\ codec_in.fn = "decode_header"
    /\ codec_out # Pending
    /\ Len(codec_in.arg) > 4
    /\ codec_out # None
    /\ codec_out.length # Len(codec_in.arg) - 4

\* C6: for every cause whose encoding is at most 254 bytes long,
\* create_ng_setup_failure returns (it does not raise), the cause-length byte
\* (byte 10) is the encoded length + 1 and the bytes after the 12-byte fixed
\* part are the encoded cause.
C6_FailureForCausesUpTo254Bytes ==
    (codec_in.fn = "create_ng_setup_failure" /\ codec_out # Pending
        /\ Len(encode_utf8(codec_in.arg)) <= 254)
        => /\ ~codec_out.raised
           /\ codec_out.value[11] = Len(encode_utf8(codec_in.arg)) + 1
           /\ FailureCause(codec_out.value) = encode_utf8(codec_in.arg)

\* What a bridged connection was sent, as plain chunks
Data(out) == [i \in 1..Len(out) |-> out[i].data]

\* C7: on a bridged connection the bytes written to the SCTP socket are a prefix
\* of the bytes read from the TCP socket, and the bytes written to the TCP
\* socket a prefix of the bytes read from the SCTP socket.
C7_ForwardedBytesArePrefixOfReadBytes ==
    \A c \in ConnIds :
        mode[c] = "BRIDGE"
            => /\ IsPrefix(Flatten(sctp_out[c]), Flatten(tcp_in[c]))
               /\ IsPrefix(Flatten(Data(tcp_out[c])), Flatten(sctp_in[c]))

\* a connection on which bytes were forwarded in both directions
C7_Witness ==
    \E c \in ConnIds :
        mode[c] = "BRIDGE" /\ sctp_out[c] # <<>> /\ tcp_out[c] # <<>>

\* C8: the forwarder is never back at the head of its loop after an empty read,
\* an exceptional condition or an I/O exception, and once it has left the loop
\* the SCTP handle is closed, and at the end of the handler the TCP handle too.
C8_ForwarderEndsAndClosesBothHandles ==
    \A c \in ConnIds :
        /\ bpc[c] \in {"b_loop", "select"} => event[c] = "none"
        /\ (mode[c] = "BRIDGE" /\ bpc[c] \in {"tcp_close", "done"})
              => sctp_sock[c] = "closed"
        /\ (mode[c] = "BRIDGE" /\ bpc[c] = "done") => tcp_closed[c]

\* a forwarder that ended on an empty read from the SCTP side, both handles closed
C8_Witness ==
    \E c \in ConnIds :
        /\ mode[c] = "BRIDGE" /\ bpc[c] = "done" /\ event[c] = "sctp_empty"
        /\ sctp_sock[c] = "closed" /\ tcp_closed[c]

\* What holds of a connection in each mode: BRIDGE iff its own probe connected,
\* MOCK for both kinds of failure; a BRIDGE connection is sent nothing built
\* locally and never runs the mock handler; a MOCK connection has no SCTP handle
\* and nothing is forwarded for it
ModeState ==
    \A c \in ConnIds :
        /\ (mode[c] = "NEW") <=> (bpc[c] \in {"unaccepted", "probe"})
        /\ mode[c] = "BRIDGE" <=> probe[c] = "connected"
        /\ mode[c] = "MOCK" <=> probe[c] \in {"ImportError", "ConnectError"}
        /\ mode[c] = "BRIDGE" =>
              /\ \A i \in 1..Len(tcp_out[c]) : tcp_out[c][i].origin = "sctp"
              /\ bpc[c] \notin {"m_first", "m_loop", "m_recv"}
        /\ mode[c] = "MOCK" =>
              /\ sctp_sock[c] = "none" /\ sctp_out[c] = <<>> /\ sctp_in[c] = <<>>
              /\ \A i \in 1..Len(tcp_out[c]) : tcp_out[c][i].origin = "mock"
              /\ bpc[c] \notin {"b_loop", "select", "b_finally"}

\* C9: a connection's mode is decided by its own probe (BRIDGE iff it connected,
\* MOCK for both kinds of failure), whatever the start-up probe found, and once
\* decided it never changes: a BRIDGE connection is never sent a locally built
\* reply, also after its forwarder ends, and a MOCK connection never has bytes
\* forwarded.
C9_ModeDecidedOnce ==
    []ModeState /\ [][\A c \in ConnIds : mode[c] # "NEW" => mode'[c] = mode[c]]_vars

\* a connection bridged to the end although the start-up probe failed, and
\* another served by the mock
C9_Witness ==
    /\ startup_probe = "ConnectError"
    /\ \E c \in ConnIds : mode[c] = "BRIDGE" /\ bpc[c] = "done" /\ sctp_out[c] # <<>>
    /\ \E c \in ConnIds : mode[c] = "MOCK" /\ tcp_out[c] # <<>>

\* C10: when stop() is through with the registry, the registry is empty and
\* every socket that was in it when stop() took the lock is closed, also when a
\* close() raised.
C10_StopEmptiesRegistryAndClosesAll ==
    [][(stop_pc = "iterate" /\ stop_pc' = "return")
          => (connections' = <<>> /\ \A c \in tracked : closed'[c])]_vars

\* stop() is through: two sockets were tracked, a close() raised, all are closed
C10_Witness ==
    /\ stop_pc = "return"
    /\ Cardinality(tracked) = 2
    /\ close_raised
    /\ connections = <<>>
    /\ \A c \in tracked : closed[c]

\* The bridge has been stopped / its acceptor and every handler have exited
BridgeStopped == bacc_pc # "start" /\ ~bridge_running
BridgeExited(c) == bpc[c] \in {"unaccepted", "done"}

\* C11: once the running flag is cleared, the acceptor loop and every handler of
\* an accepted connection (forwarder or mock fallback) eventually exit, whatever
\* the peer does, also when it stays silent and connected.
C11_UnitsExitAfterStop ==
    BridgeStopped ~> (bacc_pc = "stopped" /\ \A c \in ConnIds : BridgeExited(c))

\* The part of C11 that is about the acceptor and the forwarders alone
AcceptorAndForwardersExit ==
    BridgeStopped ~> (bacc_pc = "stopped" /\ \A c \in ConnIds : mode[c] = "BRIDGE" => BridgeExited(c))

\* C12: when a connection's handler has ended, for whatever reason, its
\* identifier is not in the registry and its socket is closed.
C12_EndedHandlerLeavesNothingBehind ==
    \A c \in ConnIds :
        pc[c] = "done" => (~HasKey(connections, c) /\ closed[c])

\* a handler that ended on an exception raised by send, while the server runs and
\* the other connection is still registered
C12_Witness ==
    \E c, d \in ConnIds :
        /\ pc[c] = "done" /\ first_rx[c] # <<>> /\ ~first_handled[c]
        /\ ~HasKey(connections, c) /\ closed[c]
        /\ running /\ stop_pc = "idle"
        /\ d # c /\ HasKey(connections, d)

\* The registry operations performed so far: inserts, deletes by handlers, and
\* entries discarded by clear()
Adds == Cardinality({c \in ConnIds : reg[c] # "none"})
Removes == Cardinality({c \in ConnIds : reg[c] = "deleted"})
Cleared == Cardinality({c \in ConnIds : reg[c] = "cleared"})

\* C13: each identifier appears at most once in the registry, and as long as
\* only handlers have added and removed entries (no clear() has discarded any)
\* the number of entries is the number of adds minus the number of removes.
C13_RegistryCountsAddsMinusRemoves ==
    /\ \A i, j \in 1..Len(connections) : connections[i] = connections[j] => i = j
    /\ Cleared = 0 => Len(connections) = Adds - Removes

\* two handlers added their entries, one of them has removed its own
C13_Witness ==
    Adds = 2 /\ Removes = 1 /\ Cleared = 0 /\ Len(connections) = 1

\* What a step leaves alone of connection d of MockAMF and of its acceptor
AmfUntouched(d) ==
    /\ pc'[d] = pc[d] /\ ng_setup_complete'[d] = ng_setup_complete[d]
    /\ closed'[d] = closed[d] /\ sent'[d] = sent[d]
    /\ first_rx'[d] = first_rx[d] /\ first_handled'[d] = first_handled[d]
    /\ HasKey(connections', d) = HasKey(connections, d)
AmfAcceptorUntouched == acc_pc' = acc_pc /\ running' = running

\* What a step leaves alone of connection d of the bridge and of its acceptor
BridgeUntouched(d) ==
    /\ bpc'[d] = bpc[d] /\ mode'[d] = mode[d] /\ event'[d] = event[d]
    /\ sctp_sock'[d] = sctp_sock[d] /\ tcp_closed'[d] = tcp_closed[d]
    /\ tcp_in'[d] = tcp_in[d] /\ sctp_out'[d] = sctp_out[d]
    /\ sctp_in'[d] = sctp_in[d] /\ tcp_out'[d] = tcp_out[d]
BridgeAcceptorUntouched == bacc_pc' = bacc_pc /\ bridge_running' = bridge_running

\* C14: the step in which a handler meets an I/O exception (it leaves its
\* receive, or its forwarding pass), and every step of its teardown after it,
\* leaves the setup state, socket, registry entry and progress of every other
\* connection, and the acceptor, unchanged.
C14_ExceptionTouchesOnlyItsConnection ==
    [][/\ \A c \in ConnIds :
             (pc[c] \in {"recv", "finally", "removing", "close"} /\ pc'[c] # pc[c])
                 => (AmfAcceptorUntouched /\ \A d \in ConnIds \ {c} : AmfUntouched(d))
       /\ \A c \in ConnIds :
             (bpc[c] \in {"select", "b_finally", "m_first", "m_recv", "tcp_close"}
                 /\ bpc'[c] # bpc[c])
                 => (BridgeAcceptorUntouched /\ \A d \in ConnIds \ {c} : BridgeUntouched(d))
      ]_vars

\* a handler ended on an exception raised by send and is torn down, while the
\* other connection has had its first message handled and is still registered,
\* open and receiving, and the acceptor is still accepting
C14_Witness ==
    \E c, d \in ConnIds :
        /\ c # d
        /\ pc[c] = "done" /\ first_rx[c] # <<>> /\ ~first_handled[c]
        /\ pc[d] = "recv" /\ first_handled[d] /\ HasKey(connections, d) /\ ~closed[d]
        /\ running /\ acc_pc = "accept"

\* A receive of connection c times out, no data having arrived on c so far
\* (of the steps that count a receive, only a timeout leaves first_rx empty)
SilentTimeout(c) ==
    pc[c] = "recv" /\ nrecv'[c] = nrecv[c] + 1 /\ first_rx'[c] = <<>>

\* C15: when the receive on a connection times out with no data having arrived,
\* the handler leaves its loop for the teardown that closes the connection.
C15_IdleTimeoutCloses ==
    [][\A c \in ConnIds : SilentTimeout(c) => pc'[c] = "finally"]_vars

\* The threads inside an operation on the registry: a handler inserting or
\* deleting its entry, stop() enumerating and clearing
InRegistryOp ==
    {c \in ConnIds : pc[c] \in {"registering", "removing"}}
        \cup (IF stop_pc = "iterate" THEN {"stop"} ELSE {})

\* C16: a thread inside a registry operation holds the lock, so at most one
\* thread is inside one at any time (stop()'s enumeration never runs together
\* with an insert or a delete), and the registry changes only in a step of the
\* thread that holds the lock.
C16_RegistryOnlyUnderLock ==
    /\ [](\A t \in InRegistryOp : lock = t)
    /\ [](Cardinality(InRegistryOp) <= 1)
    /\ [][connections' # connections => (lock # "free" /\ InRegistryOp = {lock})]_vars

\* stop() is enumerating a registry of two while one handler waits for the lock
\* to delete its entry
C16_Witness ==
    /\ lock = "stop" /\ stop_pc = "iterate" /\ stop_i = 2 /\ Len(connections) = 2
    /\ \E c \in ConnIds : pc[c] = "finally"

\* C17: no thread is inside a blocking I/O call while it holds the lock: a
\* handler that holds it is inserting or deleting its entry, not in recv or
\* send; stop() holds it only while it closes and clears; the acceptor never
\* holds it.
C17_NoBlockingIoUnderLock ==
    /\ \A c \in ConnIds : lock = c => pc[c] \in {"registering", "removing"}
    /\ \A c \in ConnIds : pc[c] = "recv" => lock # c
    /\ lock = "stop" => stop_pc = "iterate"
    /\ lock \in ConnIds \cup {"stop", "free"}

\* a handler holds the lock to delete its entry while the other handler is in
\* recv and the acceptor in accept
C17_Witness ==
    \E c, d \in ConnIds :
        lock = c /\ pc[c] = "removing" /\ pc[d] = "recv" /\ acc_pc = "accept"

\* C18: every accepted connection whose handler has not begun its teardown, and
\* whose entry no clear() has discarded, is present in the registry.
C18_AcceptedIsRegistered ==
    \A c \in ConnIds :
        (pc[c] \in {"register", "registering", "loop", "recv"} /\ reg[c] # "cleared")
            => HasKey(connections, c)

\* A failure reply is sent on connection c in this step
FailureSent(c) ==
    /\ Len(sent'[c]) = Len(sent[c]) + 1
    /\ IsFailureReply(sent'[c][Len(sent'[c])].data)

\* C19: the step that sends a failure reply leaves the connection open and
\* awaiting setup and the registry as it was, and the handler at the head of its
\* receive loop.
C19_FailureReplyKeepsConnection ==
    [][\A c \in ConnIds :
          FailureSent(c)
              => /\ ~closed'[c]
                 /\ ~ng_setup_complete'[c]
                 /\ connections' = connections
                 /\ pc'[c] = "loop"]_vars

\* a connection that was sent a failure reply, received the next message and
\* was sent another, and is receiving again, open and registered
C19_Witness ==
    \E c \in ConnIds :
        /\ Len(sent[c]) = 2
        /\ IsFailureReply(sent[c][1].data) /\ IsFailureReply(sent[c][2].data)
        /\ pc[c] = "recv" /\ ~closed[c] /\ ~ng_setup_complete[c]
        /\ HasKey(connections, c)

\* No connection of MockAMF ever has its setup complete: the gate of the receive
\* loop wants procedure code 21 in byte 0, handle_ng_setup_request wants 0 there
NeverEstablished == \A c \in ConnIds : ~ng_setup_complete[c]

\* The keepalive is sent on connection c in this step
KeepaliveSent(c) ==
    /\ Len(sent'[c]) = Len(sent[c]) + 1
    /\ sent'[c][Len(sent'[c])].data = Keepalive

\* C21: the keepalive is sent on a connection of MockAMF only in a step in which
\* a receive timed out (the handler was in recv and the step consumed no
\* message) and the connection's setup was complete; a bridged connection is
\* sent nothing that the bridge built itself.
C21_KeepaliveOnlyOnTimeoutAfterSetup ==
    /\ [][\A c \in ConnIds :
             KeepaliveSent(c)
                 => /\ ng_setup_complete[c]
                    /\ pc[c] = "recv"
                    /\ first_rx'[c] = first_rx[c]
                    /\ sent'[c][Len(sent'[c])].re = <<>>]_vars
    /\ [](\A c \in ConnIds : \A i \in 1..Len(sent[c]) :
             sent[c][i].data = Keepalive => ng_setup_complete[c])
    /\ [](\A c \in ConnIds : mode[c] = "BRIDGE" =>
             \A i \in 1..Len(tcp_out[c]) : tcp_out[c][i].origin = "sctp")

\* a receive timed out on a connection whose setup is not complete, nothing was
\* sent, and the handler is in recv again
C21_Witness ==
    \E c \in ConnIds :
        /\ nrecv[c] = 1 /\ first_rx[c] = <<>> /\ ~ng_setup_complete[c]
        /\ sent[c] = <<>> /\ pc[c] = "recv" /\ ~closed[c]

\* The replies the responders build: who built the one in codec_out
Builders == {"create_ng_setup_response", "create_ng_setup_failure",
             "create_mock_ng_setup_response"}

\* C22: in every reply a builder returns (the success template, the failure
\* template for a cause of up to 247 encoded bytes, the bridge's mock response)
\* the big-endian length in bytes 2-3 is the number of bytes after the 4-byte
\* header.
C22_LengthFieldCountsBytesAfterHeader ==
    (/\ codec_in.fn \in Builders
     /\ codec_out # Pending
     /\ codec_in.fn = "create_ng_setup_failure" => Len(encode_utf8(codec_in.arg)) <= 247)
        => /\ ~codec_out.raised
           /\ unpack_H_be(Slice(codec_out.value, 2, 4)) = Len(codec_out.value) - 4

\* stop() has been called: the flag, set by start(), is cleared
StopCalled == acc_pc # "start" /\ ~running

\* Every accepted socket is closed and the registry is empty
AllClosedAndEmpty ==
    /\ connections = <<>>
    /\ \A c \in ConnIds : pc[c] # "unaccepted" => closed[c]

\* C23: once stop() has been called and has returned for the last time, in
\* every interleaving with the acceptor and the handlers, the registry is
\* eventually empty for good and every accepted socket is eventually closed.
C23_AfterStopRegistryEmptiesAndSocketsClose ==
    <>[](StopCalled /\ stop_pc = "idle") => <>[]AllClosedAndEmpty

\* stop() has closed a tracked socket and cleared the registry, and a handler
\* that had been spawned but was not in the registry then has since inserted
\* its entry; its socket is open
C23_Witness ==
    /\ stop_pc = "return"
    /\ \E d \in tracked : closed[d]
    /\ \E c \in ConnIds : c \notin tracked /\ HasKey(connections, c) /\ ~closed[c]

====
